---- MODULE Spec2Model ----
(***************************************************************************)
(* A model of src/molecule.py: the Molecule value object, its constructors *)
(* (Molecule, from_string, from_coord_string, copy), set_units,            *)
(* set_coordinates, iteration and stringification.                         *)
(*                                                                         *)
(* Python objects are modelled by reference.  `heap` holds every           *)
(* coordinate container a caller or a Molecule can reach (numpy arrays and *)
(* Python lists); a Molecule's `coordinates` field is an index into it, so *)
(* that two Molecules, or a Molecule and its caller, can share one array.  *)
(*                                                                         *)
(* float64 values are modelled in fixed point: the integer x stands for    *)
(* x / One.  A product or quotient is rounded to the nearest               *)
(* representable value, as floating-point arithmetic does.  The "%.10f"    *)
(* format keeps fewer digits than the values carry: it rounds to a         *)
(* multiple of FmtUnit.                                                    *)
(***************************************************************************)
EXTENDS Integers, Sequences, FiniteSets, TLC

VARIABLES heap, mols, last, probe, copies, built, steps

vars == <<heap, mols, last, probe, copies, built, steps>>

(* ------------------------------ bounds -------------------------------- *)

\* The number of calls a behaviour of Spec makes.
MaxSteps == 3
\* The number of calls a behaviour of SpecUnits makes.
MaxUnitSteps == 5
\* The number of calls a behaviour of SpecShare makes.
MaxShareSteps == 4
\* The number of atoms of the largest input.
MaxAtoms == 2
\* The number of Molecule objects a behaviour creates.
MaxMols == 2

(* ----------------------------- arithmetic ----------------------------- *)

\* The fixed-point image of the float 1.0.
One == 10000

\* physconst.bohr2angstrom (0.5292 in fixed point).
bohr2angstrom == 5292

\* The resolution of "{: >15.10f}": the last digit the format keeps.
FmtUnit == 10

\* n / d rounded to the nearest integer (d > 0).
Round(n, d) == (2 * n + d) \div (2 * d)

Abs(x) == IF x < 0 THEN -x ELSE x

Min(a, b) == IF a < b THEN a ELSE b

\* x * physconst.bohr2angstrom
MulK(x) == Round(x * bohr2angstrom, One)

\* A slip: the angstrom -> bohr branch multiplies too.
DivKWrong(x) == Round(x * bohr2angstrom, One)

\* x / physconst.bohr2angstrom
DivK(x) == Round(x * One, bohr2angstrom)

\* "{: >15.10f}".format(x), read back as a number.
Fmt(x) == Round(x, FmtUnit) * FmtUnit

\* data * physconst.bohr2angstrom, component by component.
MulData(data) ==
  [i \in 1..Len(data) |-> [j \in 1..Len(data[i]) |-> MulK(data[i][j])]]

\* data / physconst.bohr2angstrom, component by component.
DivData(data) ==
  [i \in 1..Len(data) |-> [j \in 1..Len(data[i]) |-> DivK(data[i][j])]]

(* ------------------------------ strings ------------------------------- *)

ValidUnits == {"angstrom", "bohr"}

\* str.lower on the unit names the model uses.
Lower(s) ==
  CASE s = "Bohr" -> "bohr"
    [] s = "Angstrom" -> "angstrom"
    [] s = "Meters" -> "meters"
    [] OTHER -> s

\* units=None of set_coordinates.
None == "None"

(* ------------------------------- masses ------------------------------- *)

\* The symbols of the atomic-mass table the model uses.
KnownSymbols == {"O", "H"}

\* atomdata.get_mass on a known symbol (in thousandths of an amu).
get_mass(label) == IF label = "O" THEN 15995 ELSE 1008

(* ------------------------------- inputs ------------------------------- *)

\* Row i of an input geometry.
RowInput(i) == IF i = 1 THEN <<0, 0, -647>> ELSE <<0, -749 * (i - 1), 5135>>

\* Row i of an input geometry given in whole numbers.
RowInt(i) == <<0, 0, i * One>>

FloatRows(n) == [i \in 1..n |-> RowInput(i)]

\* A container: a numpy array or a Python list, of floats or of ints.
Container(c, t, d) == [container |-> c, dtype |-> t, data |-> d]

\* A float array with a row for every atom.
FullLiteral == Container("ndarray", "float", FloatRows(MaxAtoms))

\* The coordinate arguments a caller builds afresh.
Literals ==
  { FullLiteral,
    Container("ndarray", "float", FloatRows(MaxAtoms - 1)),
    Container("list", "int", [i \in 1..MaxAtoms |-> RowInt(i)]) }

\* Labels for MaxAtoms atoms.
FullLabels == [i \in 1..MaxAtoms |-> IF i = 1 THEN "O" ELSE "H"]

\* The label arguments.
LabelInputs == {FullLabels, <<"Xx">>}

\* The units arguments of the constructor.
UnitInputs == {"angstrom", "Bohr", "meters"}

\* The targets of set_units.
TargetInputs == {"angstrom", "bohr", "meters"}

\* The units arguments of set_coordinates.
SetUnitInputs == {None, "bohr", "meters"}

\* The value a caller writes in place, and where.
WriteVal == 1234

(* ------------------------------- state -------------------------------- *)

\* heap:   the coordinate containers, by identity (a sequence; an index
\*         is an object's identity).
\* mols:   the Molecule objects, by identity.
\* last:   the last call: its name, the Molecule it was made on or
\*         returned, the identity of its array argument, its units
\*         argument, the units of its Molecule before the call, what it
\*         raised, and the value it was passed or returned.
\* probe:  the alternation of set_units targets in progress on a Molecule
\*         that was in angstrom: the Molecule, the number of calls so far
\*         and the coordinates before the first.
\* copies: the pairs <<original, copy>> made by copy().
\* built:  the Molecules that have not been passed through
\*         set_coordinates, each with the identity of the array its caller
\*         gave the constructor (0: none, for from_string and copy).
\* steps:  the number of calls made.

NoVal == <<>>

Call(op, m, a, u, was, err, val) ==
  [op |-> op, mol |-> m, arg |-> a, units |-> u, was |-> was,
   err |-> err, val |-> val]

NoProbe == [mol |-> 0, n |-> 0, base |-> <<>>]

Init ==
  /\ heap = <<>>
  /\ mols = <<>>
  /\ last = Call("none", 0, 0, None, None, "ok", NoVal)
  /\ probe = NoProbe
  /\ copies = {}
  /\ built = {}
  /\ steps = 0

Mols == 1..Len(mols)

\* The values of Molecule m's coordinates.
Data(m) == heap[mols[m].coordinates].data

Tick == steps' = steps + 1

(* ------------------------- src/parse.py (text) ------------------------ *)

\* One line of a coordinate string: its first token, the token after a
\* "units" directive, and the numeric tokens of an atom line.
Line(head, word, nums) == [head |-> head, word |-> word, nums |-> nums]

DataLines(text) == SelectSeq(text, LAMBDA l : l.head # "units")

\* CoordinateString.extract_units: the directive's token, lower-cased.
extract_units(text) ==
  Lower(SelectSeq(text, LAMBDA l : l.head = "units")[1].word)

\* CoordinateString.extract_labels: the first token of every data line.
extract_labels(text) ==
  [i \in 1..Len(DataLines(text)) |-> DataLines(text)[i].head]

\* CoordinateString.extract_coordinates: the other tokens, as floats.
extract_coordinates(text) ==
  Container("ndarray", "float",
            [i \in 1..Len(DataLines(text)) |-> DataLines(text)[i].nums])

\* The example geometry of the module's __main__ block (two of its atoms).
mol_string ==
  << Line("units", "angstrom", <<>>),
     Line("O", "", <<0, 0, -647>>),
     Line("H", "", <<0, -7490, 5135>>) >>

(* ----------------------------- the object ----------------------------- *)

\* np.array(coordinates): a new array holding the argument's values.
np_array(c) == Container("ndarray", c.dtype, c.data)

\* A slip: self.coordinates = coordinates, the argument itself.
InitCoordinatesShared(arg, fresh) == arg

\* self.coordinates = np.array(coordinates): the Molecule refers to the
\* new array `fresh`, not to the argument `arg`.
InitCoordinates(arg, fresh) == fresh

\* A slip: the units check is left out.
InitErrorNoCheck(labels, units) ==
  IF \E i \in 1..Len(labels) : labels[i] \notin KnownSymbols
  THEN "LookupError"
  ELSE "ok"

\* What Molecule.__init__ raises, in the order of its statements: the mass
\* lookup (line 46) runs before the units check (line 48).
InitError(labels, units) ==
  IF \E i \in 1..Len(labels) : labels[i] \notin KnownSymbols
  THEN "LookupError"
  ELSE IF Lower(units) \notin ValidUnits THEN "ValueError" ELSE "ok"

\* The fields Molecule.__init__ sets.
Molecule(labels, coordinates, units) ==
  [ labels |-> labels,
    coordinates |-> coordinates,
    units |-> Lower(units),
    masses |-> [i \in 1..Len(labels) |-> get_mass(labels[i])],
    natom |-> Len(labels) ]

\* An argument a caller passes for `coordinates`: an array it already
\* reaches (id > 0), or one it builds for the call (id = 0).
Args ==
  {[id |-> a, lit |-> heap[a]] : a \in 1..Len(heap)}
    \cup {[id |-> 0, lit |-> l] : l \in Literals}

Passed(arg) == IF arg.id = 0 THEN Append(heap, arg.lit) ELSE heap

ArgId(arg) == IF arg.id = 0 THEN Len(heap) + 1 ELSE arg.id

\* Molecule.__iter__: zip(self.labels, self.coordinates).
Items(m) ==
  [i \in 1..Min(Len(mols[m].labels), Len(Data(m))) |->
     <<mols[m].labels[i], Data(m)[i]>>]

\* Molecule.__str__ of the record mol whose coordinates hold data.
StrOf(mol, data) ==
  <<Line("units", mol.units, <<>>)>> \o
  [i \in 1..Min(Len(mol.labels), Len(data)) |->
     Line(mol.labels[i], "", [j \in 1..3 |-> Fmt(data[i][j])])]

Str(m) == StrOf(mols[m], Data(m))

\* Whether `self.coordinates *= c` and `/= c` work in place: on a float
\* array.  An integer array refuses the cast and a list has no such
\* operator: both raise TypeError.
Scalable(c) == c.container = "ndarray" /\ c.dtype = "float"

(* ------------------------------ actions ------------------------------- *)

\* Molecule(labels, coordinates, units)
Molecule_init(labels, arg, units) ==
  /\ Tick
  /\ Len(mols) < MaxMols
  /\ LET h1 == Passed(arg)
         a == ArgId(arg)
         err == InitError(labels, units)
         m == Len(mols) + 1
     IN  IF err = "ok"
         THEN /\ heap' = Append(h1, np_array(h1[a]))
              /\ mols' = Append(mols,
                   Molecule(labels, InitCoordinates(a, Len(h1) + 1), units))
              /\ built' = built \cup {[mol |-> m, arg |-> a]}
              /\ last' = Call("init", m, a, units, None, "ok", labels)
         ELSE /\ UNCHANGED <<heap, mols, built>>
              /\ last' = Call("init", 0, 0, units, None, err, labels)
  /\ probe' = NoProbe
  /\ UNCHANGED copies

\* Molecule.from_coord_string(coord_string, units)
from_coord_string(text, units) ==
  /\ Tick
  /\ Len(mols) < MaxMols
  /\ LET labels == extract_labels(text)
         err == InitError(labels, units)
         m == Len(mols) + 1
     IN  IF err = "ok"
         THEN /\ heap' = Append(heap, np_array(extract_coordinates(text)))
              /\ mols' = Append(mols, Molecule(labels, Len(heap) + 1, units))
              /\ built' = built \cup {[mol |-> m, arg |-> 0]}
              /\ last' = Call("from_string", m, 0, units, None, "ok", labels)
         ELSE /\ UNCHANGED <<heap, mols, built>>
              /\ last' = Call("from_string", 0, 0, units, None, err, labels)
  /\ probe' = NoProbe
  /\ UNCHANGED copies

\* Molecule.from_string(mol_str)
from_string(text) == from_coord_string(text, extract_units(text))

\* Molecule.copy()
copy(m) ==
  /\ Tick
  /\ Len(mols) < MaxMols
  /\ LET err == InitError(mols[m].labels, mols[m].units)
         c == Len(mols) + 1
     IN  IF err = "ok"
         THEN /\ heap' = Append(heap, np_array(heap[mols[m].coordinates]))
              /\ mols' = Append(mols,
                   Molecule(mols[m].labels, Len(heap) + 1, mols[m].units))
              /\ built' = built \cup {[mol |-> c, arg |-> 0]}
              /\ copies' = copies \cup {<<m, c>>}
              /\ last' = Call("copy", c, m, mols[m].units, None, "ok",
                              mols[m].labels)
         ELSE /\ UNCHANGED <<heap, mols, built, copies>>
              /\ last' = Call("copy", 0, m, mols[m].units, None, err,
                              mols[m].labels)
  /\ probe' = NoProbe

\* The alternation of set_units targets a caller is in the middle of.
NextProbe(m, units) ==
  IF probe.mol = m /\ units = (IF probe.n % 2 = 1 THEN "angstrom" ELSE "bohr")
  THEN [probe EXCEPT !.n = @ + 1]
  ELSE IF units = "bohr" /\ mols[m].units = "angstrom"
       THEN [mol |-> m, n |-> 1, base |-> Data(m)]
       ELSE NoProbe

\* A branch of set_units: the label is assigned first, then the array is
\* scaled in place to `scaled`, which raises on a container that cannot
\* be.
Convert(m, units, scaled) ==
  LET a == mols[m].coordinates
  IN  /\ mols' = [mols EXCEPT ![m].units = units]
      /\ IF Scalable(heap[a])
         THEN /\ heap' = [heap EXCEPT ![a].data = scaled]
              /\ last' = Call("set_units", m, 0, units, mols[m].units,
                              "ok", NoVal)
         ELSE /\ heap' = heap
              /\ last' = Call("set_units", m, 0, units, mols[m].units,
                              "TypeError", NoVal)

\* A slip: the branches test the target only, not the current units.
set_units_any(m, units) ==
  /\ Tick
  /\ IF units = "angstrom"
     THEN Convert(m, "angstrom", MulData(Data(m)))
     ELSE IF units = "bohr"
          THEN Convert(m, "bohr", DivData(Data(m)))
          ELSE /\ UNCHANGED <<heap, mols>>
               /\ last' = Call("set_units", m, 0, units, mols[m].units,
                               "ok", NoVal)
  /\ probe' = NextProbe(m, units)
  /\ UNCHANGED <<copies, built>>

\* Molecule.set_units(units)
set_units(m, units) ==
  /\ Tick
  /\ IF units = "angstrom" /\ mols[m].units = "bohr"
     THEN Convert(m, "angstrom", MulData(Data(m)))
     ELSE IF units = "bohr" /\ mols[m].units = "angstrom"
          THEN Convert(m, "bohr", DivData(Data(m)))
          ELSE /\ UNCHANGED <<heap, mols>>
               /\ last' = Call("set_units", m, 0, units, mols[m].units,
                               "ok", NoVal)
  /\ probe' = NextProbe(m, units)
  /\ UNCHANGED <<copies, built>>

\* A slip: the units argument is dropped.
set_coordinates_keep(m, arg, units) ==
  /\ Tick
  /\ heap' = Passed(arg)
  /\ mols' = [mols EXCEPT ![m].coordinates = ArgId(arg)]
  /\ last' = Call("set_coordinates", m, ArgId(arg), units, mols[m].units,
                  "ok", arg.lit)
  /\ built' = {b \in built : b.mol # m}
  /\ probe' = NoProbe
  /\ UNCHANGED copies

\* Molecule.set_coordinates(coordinates, units=None)
set_coordinates(m, arg, units) ==
  /\ Tick
  /\ heap' = Passed(arg)
  /\ mols' = [mols EXCEPT
       ![m].units = IF units = None THEN @ ELSE units,
       ![m].coordinates = ArgId(arg)]
  /\ last' = Call("set_coordinates", m, ArgId(arg), units, mols[m].units,
                  "ok", arg.lit)
  /\ built' = {b \in built : b.mol # m}
  /\ probe' = NoProbe
  /\ UNCHANGED copies

\* for label, xyz in mol
Molecule_iter(m) ==
  /\ Tick
  /\ last' = Call("iter", m, 0, None, mols[m].units, "ok", Items(m))
  /\ probe' = NoProbe
  /\ UNCHANGED <<heap, mols, copies, built>>

\* str(mol)
Molecule_str(m) ==
  /\ Tick
  /\ last' = Call("str", m, 0, None, mols[m].units, "ok", Str(m))
  /\ probe' = NoProbe
  /\ UNCHANGED <<heap, mols, copies, built>>

\* A caller's in-place write to an array it reaches: arr[0][2] = v.
caller_write(a) ==
  /\ Tick
  /\ Len(heap[a].data) >= 1
  /\ heap' = [heap EXCEPT ![a].data[1][3] = WriteVal]
  /\ last' = Call("write", 0, a, None, None, "ok", NoVal)
  /\ probe' = NoProbe
  /\ UNCHANGED <<mols, copies, built>>

\* The strings a caller hands to from_string: the example, and the text
\* str() has just returned.
TextInputs == {mol_string} \cup (IF last.op = "str" THEN {last.val} ELSE {})

More == steps < MaxSteps

Next ==
  \/ More /\ \E l \in LabelInputs, arg \in Args, u \in UnitInputs :
               Molecule_init(l, arg, u)
  \/ More /\ \E t \in TextInputs : from_string(t)
  \/ More /\ \E m \in Mols : copy(m)
  \/ More /\ \E m \in Mols, u \in TargetInputs : set_units(m, u)
  \/ More /\ \E m \in Mols, arg \in Args, u \in SetUnitInputs :
               set_coordinates(m, arg, u)
  \/ More /\ \E m \in Mols : Molecule_iter(m)
  \/ More /\ \E m \in Mols : Molecule_str(m)
  \/ More /\ \E a \in 1..Len(heap) : caller_write(a)

Spec == Init /\ [][Next]_vars

\* The calls of a caller that only builds Molecules and converts units.
MoreUnits == steps < MaxUnitSteps

NextUnits ==
  \/ MoreUnits /\ \E l \in LabelInputs, arg \in Args, u \in UnitInputs :
                    Molecule_init(l, arg, u)
  \/ MoreUnits /\ from_string(mol_string)
  \/ MoreUnits /\ \E m \in Mols, u \in TargetInputs : set_units(m, u)

SpecUnits == Init /\ [][NextUnits]_vars

\* The calls of a caller that gives valid arguments only, and passes
\* arrays around.
MoreShare == steps < MaxShareSteps

ShareArgs == {arg \in Args : arg.id > 0 \/ arg.lit = FullLiteral}

NextShare ==
  \/ MoreShare /\ \E arg \in ShareArgs, u \in ValidUnits :
                    Molecule_init(FullLabels, arg, u)
  \/ MoreShare /\ \E m \in Mols : copy(m)
  \/ MoreShare /\ \E m \in Mols, u \in ValidUnits : set_units(m, u)
  \/ MoreShare /\ \E m \in Mols, arg \in ShareArgs, u \in {None, "bohr"} :
                    set_coordinates(m, arg, u)
  \/ MoreShare /\ \E a \in 1..Len(heap) : caller_write(a)

SpecShare == Init /\ [][NextShare]_vars

(* ------------------------------- claims ------------------------------- *)

\* A call has just been made (the step is not a stuttering one).
Called(op) == steps' = steps + 1 /\ last'.op = op

\* The data d and e agree to within tol in every component.
Close(d, e, tol) ==
  /\ Len(d) = Len(e)
  /\ \A i \in 1..Len(d) :
       /\ Len(d[i]) = Len(e[i])
       /\ \A j \in 1..Len(d[i]) : Abs(d[i][j] - e[i][j]) <= tol

\* C1: in every reachable state every Molecule's units field is
\* 'angstrom' or 'bohr'.
C1_UnitsValid == \A m \in Mols : mols[m].units \in ValidUnits

\* C2: in every reachable state every Molecule has as many labels as rows
\* of coordinates and as masses.
C2_LengthsAgree ==
  \A m \in Mols :
    /\ Len(mols[m].labels) = Len(Data(m))
    /\ Len(mols[m].labels) = Len(mols[m].masses)

\* The calls that run Molecule.__init__.
CtorOps == {"init", "from_string", "copy"}

BadUnits(u) == Lower(u) \notin ValidUnits

\* C3, as stated: a construction whose units are neither 'angstrom' nor
\* 'bohr' in lower case raises the invalid-units ValueError, whatever the
\* labels and coordinates, and returns no Molecule.
C3_BadUnitsValueError ==
  [][ (\E op \in CtorOps : Called(op)) /\ BadUnits(last'.units)
        => /\ last'.err = "ValueError"
           /\ last'.mol = 0
           /\ mols' = mols ]_vars

\* C3, amended: such a construction always raises and returns no
\* Molecule; it raises the invalid-units ValueError when every label is in
\* the mass table, and the mass lookup's error, raised first, otherwise.
C3_BadUnitsFail ==
  [][ (\E op \in CtorOps : Called(op)) /\ BadUnits(last'.units)
        => /\ last'.err =
                IF \A i \in 1..Len(last'.val) : last'.val[i] \in KnownSymbols
                THEN "ValueError" ELSE "LookupError"
           /\ last'.mol = 0
           /\ mols' = mols
           /\ heap' = heap ]_vars

\* The constructor has refused the units 'meters' of an input whose
\* labels are all known.
C3_Witness ==
  /\ last.op = "init"
  /\ last.units = "meters"
  /\ last.err = "ValueError"
  /\ last.val = FullLabels

\* from_string(str(m)) for Molecule m: the error raised, and the fields
\* of the Molecule built.
RoundTripOK(m) ==
  LET text == Str(m)
      labels == extract_labels(text)
      units == extract_units(text)
  IN  /\ InitError(labels, units) = "ok"
      /\ labels = mols[m].labels
      /\ Molecule(labels, 0, units).units = mols[m].units
      /\ Close(np_array(extract_coordinates(text)).data, Data(m), FmtUnit)

\* C4: for every Molecule in every reachable state, from_string(str(m))
\* succeeds and yields the same labels, the same units and coordinates
\* equal to within the formatting precision.
C4_RoundTrip == \A m \in Mols : RoundTripOK(m)

\* C5: set_units(target) on a Molecule in the other valid unit relabels
\* and scales together: bohr -> angstrom multiplies every component by
\* bohr2angstrom, angstrom -> bohr divides by it; the label never changes
\* without the scaling, nor the coordinates without the label.
C5_ConvertTogether ==
  [][ \A m \in Mols :
        Called("set_units") /\ last'.mol = m
          => /\ (last'.units = "angstrom" /\ mols[m].units = "bohr")
                  => /\ mols'[m].units = "angstrom"
                     /\ Data(m)' = MulData(Data(m))
             /\ (last'.units = "bohr" /\ mols[m].units = "angstrom")
                  => /\ mols'[m].units = "bohr"
                     /\ Data(m)' = DivData(Data(m))
             /\ mols'[m].units # mols[m].units
                  => Data(m)' \in {MulData(Data(m)),
                                   DivData(Data(m))}
             /\ Data(m)' # Data(m) => mols'[m].units # mols[m].units ]_vars

\* C6: set_units leaves every field of the Molecule, and every array,
\* as it was and raises nothing when the Molecule is already in the target
\* units and when the target is neither 'angstrom' nor 'bohr'.
C6_NoOp ==
  [][ \A m \in Mols :
        /\ Called("set_units") /\ last'.mol = m
        /\ last'.units = mols[m].units \/ last'.units \notin ValidUnits
        => /\ mols' = mols
           /\ heap' = heap
           /\ last'.err = "ok" ]_vars

\* set_units('bohr') has returned on a Molecule that was in bohr already
\* and whose coordinates are not all zero.
C6_Witness ==
  /\ last.op = "set_units"
  /\ last.units = "bohr"
  /\ last.was = "bohr"
  /\ Scalable(heap[mols[last.mol].coordinates])
  /\ \E i \in 1..Len(Data(last.mol)) : Data(last.mol)[i][3] # 0

\* C7: after an even number of alternating set_units calls, 'bohr' first,
\* on a Molecule that was in angstrom, the units are 'angstrom' again and
\* every coordinate is the original one to within one unit of the last
\* place.
C7_RoundTrip ==
  probe.n > 0 /\ probe.n % 2 = 0
    => /\ mols[probe.mol].units = "angstrom"
       /\ Close(Data(probe.mol), probe.base, 1)

\* set_units('bohr') then set_units('angstrom') have both converted a
\* float array whose values are not all zero.
C7_Witness ==
  /\ probe.n = 2
  /\ last.err = "ok"
  /\ Scalable(heap[mols[probe.mol].coordinates])
  /\ \E i \in 1..Len(probe.base) : probe.base[i][3] # 0

\* copy() has returned a Molecule equal to its original, in an array of
\* its own.
CopyOK ==
  last.op = "copy"
    => /\ last.err = "ok"
       /\ last.mol \in Mols
       /\ mols[last.mol].labels = mols[last.arg].labels
       /\ mols[last.mol].units = mols[last.arg].units
       /\ Data(last.mol) = Data(last.arg)
       /\ mols[last.mol].coordinates # mols[last.arg].coordinates

\* The step is a mutation of Molecule m: a set_units or set_coordinates
\* call on it, or an in-place write to its coordinates.
Mutates(m) ==
  \/ (Called("set_units") \/ Called("set_coordinates")) /\ last'.mol = m
  \/ Called("write") /\ last'.arg = mols[m].coordinates

\* A mutation of Molecule m leaves Molecule o's coordinates and units.
Untouched(m, o) ==
  Mutates(m) => Data(o)' = Data(o) /\ mols'[o].units = mols[o].units

\* C8: copy() returns a new Molecule with the same labels, units and
\* coordinate values, and from then on no mutation of the copy changes the
\* original's coordinates or units, nor the reverse.
C8_CopyIndependent ==
  [][ /\ CopyOK'
      /\ \A p \in copies : Untouched(p[2], p[1]) /\ Untouched(p[1], p[2])
    ]_vars

LeavesArg(m, arg) ==
  Called("set_units") /\ last'.mol = m /\ arg > 0 => heap'[arg] = heap[arg]

\* C10, as stated: a Molecule built by a constructor, from_string or
\* copy() and not passed through set_coordinates since holds a matrix no
\* other object shares, so that set_units on it changes neither the array
\* its caller gave the constructor nor any other Molecule's coordinates.
C10_BuiltOwnsMatrix ==
  [][ /\ \A b \in built' :
           /\ mols'[b.mol].coordinates # b.arg
           /\ \A o \in 1..Len(mols') : o # b.mol =>
                mols'[o].coordinates # mols'[b.mol].coordinates
      /\ \A b \in built :
           /\ LeavesArg(b.mol, b.arg)
           /\ \A o \in Mols \ {b.mol} :
                Called("set_units") /\ last'.mol = b.mol
                  => Data(o)' = Data(o) ]_vars

\* C10, amended: such a Molecule holds a matrix that is not the array its
\* caller gave the constructor and that no other Molecule holds when it
\* is built; set_units on it never changes the caller's array, and changes
\* the coordinates only of a Molecule that was given this same matrix
\* through set_coordinates.
C10_BuiltOwnsUnlessGiven ==
  [][ /\ \A b \in built' \ built :
           \A o \in 1..Len(mols') : o # b.mol =>
             mols'[o].coordinates # mols'[b.mol].coordinates
      /\ \A b \in built' : mols'[b.mol].coordinates # b.arg
      /\ \A b \in built :
           /\ LeavesArg(b.mol, b.arg)
           /\ \A o \in Mols \ {b.mol} :
                /\ Called("set_units") /\ last'.mol = b.mol
                /\ mols[o].coordinates # mols[b.mol].coordinates
                => Data(o)' = Data(o) ]_vars

\* set_units has scaled the matrix of a Molecule built from a caller's
\* array, with values that are not all zero, while another Molecule
\* exists.
C10_Witness ==
  /\ last.op = "set_units"
  /\ last.err = "ok"
  /\ last.was # last.units
  /\ last.units \in ValidUnits
  /\ \E b \in built : b.mol = last.mol /\ b.arg > 0
  /\ Len(mols) >= 2
  /\ \E i \in 1..Len(Data(last.mol)) : Data(last.mol)[i][3] # 0

====
